---- MODULE Spec2Model ----
(***************************************************************************)
(* Model of debtcollector/moves.py: the wrapper constructors               *)
(* moved_function, moved_method, moved_property, moved_class and the       *)
(* descriptor moved_read_only_property, together with the Python object    *)
(* protocol they rely on (attribute lookup, attribute assignment, class    *)
(* instantiation).                                                         *)
(*                                                                         *)
(* A Python string is a sequence of tokens, concatenation is \o, the       *)
(* empty string is <<>>.  An absent (None) optional string is <<>> too:    *)
(* the code only tests these for truth.                                    *)
(***************************************************************************)
EXTENDS Integers, Sequences, FiniteSets, TLC

VARIABLES
    wrappers,   \* heap of the closures/descriptors the constructors returned
    classes,    \* heap of classes: __name__, __module__, base, own __init__
    hostDict,   \* __dict__ of the class Host that carries moved attributes
    instDicts,  \* __dict__ of every instance of Host
    invoked,    \* per wrapper: how often its body was entered
    warned,     \* per wrapper: how many warnings it handed to the channel
    forwarded,  \* per wrapper: how many calls/lookups it forwarded
    generated,  \* per wrapper: how many generate_message calls it caused
    ops,        \* number of top-level operations performed so far
    last        \* the last top-level operation: input, event trace, outcome

vars == <<wrappers, classes, hostDict, instDicts, invoked, warned, forwarded,
          generated, ops, last>>

----------------------------------------------------------------------------
(* Bounds *)

MaxWrappers == 2
MaxOps == 4
MaxNameLen == 4

----------------------------------------------------------------------------
(* Strings *)

S(tok) == <<tok>>

RECURSIVE Join(_, _)
Join(sep, parts) ==
    IF parts = <<>> THEN <<>>
    ELSE IF Len(parts) = 1 THEN parts[1]
    ELSE parts[1] \o sep \o Join(sep, Tail(parts))

endswith(s, postfix) ==
    /\ Len(s) >= Len(postfix)
    /\ SubSeq(s, Len(s) - Len(postfix) + 1, Len(s)) = postfix

MOVED_CALLABLE_POSTFIX == <<"(", ")">>

KIND_MOVED_PREFIX_TPL(kind, old, new) ==
    S(kind) \o S(" '") \o old \o S("' has moved to '") \o new \o S("'")

CLASS_MOVED_PREFIX_TPL(old, new) ==
    S("Class '") \o old \o S("' has moved to '") \o new \o S("'")

FUNC_MOVED_PREFIX_TPL(old, new) ==
    S("Function '") \o old \o S("' has moved to '") \o new \o S("'")

ROP_MOVED_PREFIX_TPL(old, new) ==
    S("Read-only property '") \o old \o S("' has moved to '") \o new \o S("'")

----------------------------------------------------------------------------
(* debtcollector._utils *)

generate_message(prefix, message, version, removal_version) ==
    prefix
    \o (IF message # <<>> THEN S(". ") \o message ELSE <<>>)
    \o (IF version # <<>>
        THEN S(". in version ") \o version
             \o (IF removal_version = <<>> THEN <<>>
                 ELSE IF removal_version = S("?")
                 THEN S(" and will be removed in a future version")
                 ELSE S(" and will be removed in ") \o removal_version)
        ELSE <<>>)

\* One warning handed to the warning channel; never raises.
deprecation(w, message, stacklevel, category) ==
    [type |-> "warn", w |-> w, message |-> message, stacklevel |-> stacklevel,
     category |-> IF category = "None" THEN "DeprecationWarning" ELSE category]

\* get_qualified_name(f): with __qualname__ the name is already qualified.
get_qualified_name(name, has_qualname) ==
    IF has_qualname THEN <<TRUE, S("Host.") \o name>> ELSE <<FALSE, name>>

\* get_callable_name(function): its module and name, dotted.
get_callable_name(heap, ref) ==
    IF ref.kind = "plain" THEN <<"newmod", ".", ref.name>>
    ELSE heap[ref.idx].module \o S(".") \o heap[ref.idx].name

\* get_class_name(obj, fully_qualified=False) of a bound method of a Host
\* instance: the bare class name.
get_class_name_of_bound(self) == S("Host")

\* get_class_name(cls): module and name of the class.
get_class_name(cls) == Join(S("."), <<cls.module, cls.name>>)

----------------------------------------------------------------------------
(* Values, references and the user's own code *)

PlainRef(name) == [kind |-> "plain", name |-> name, idx |-> 0]
ClosureRef(i) == [kind |-> "closure", name |-> "", idx |-> i]
NoRef == [kind |-> "none", name |-> "", idx |-> 0]

ClassValue(c) == [type |-> "class", id |-> c]
IntValue(n) == [type |-> "int", id |-> n]

Return(val) == [tag |-> "return", val |-> val]
Raise(val) == [tag |-> "raise", val |-> val]

\* Functions of the user that need one positional argument: calling them
\* with none raises TypeError.
StrictFuncs == {"strict_func", "old_method", "NewC.__init__"}

\* What the user's function `name` does: its result determines its inputs.
TargetOutcome(name, self, args, kwargs) ==
    IF name \in StrictFuncs /\ args = <<>>
    THEN Raise(<<"TypeError", self, S(name), kwargs>>)
    ELSE Return(<<name, self, args, kwargs>>)

Enter(w) == [type |-> "enter", w |-> w]
Generate(w) == [type |-> "generate", w |-> w]
CallEv(w, ref, self, args, kwargs) ==
    [type |-> "call", w |-> w, target |-> ref, self |-> self,
     args |-> args, kwargs |-> kwargs]
LookupEv(w, owner, name) ==
    [type |-> "getattr", w |-> w, owner |-> owner, name |-> name]

Count(events, type, w) ==
    Cardinality({i \in 1..Len(events) : events[i].type = type /\ events[i].w = w})

----------------------------------------------------------------------------
(* The wrapper bodies *)

RECURSIVE Call(_, _, _, _, _)

\* old_new_func forwarding without the keyword arguments.
old_new_func_drops_kwargs(heap, w, self, args, kwargs) ==
    LET c == heap[w]
        fwd == Call(heap, c.new_func, self, args, {})
    IN  [events |-> <<Enter(w),
                      deprecation(w, c.out_message, c.stacklevel, c.category),
                      CallEv(w, c.new_func, self, args, {})>> \o fwd.events,
         outcome |-> fwd.outcome]

\* old_new_func building its message again on every call.
old_new_func_reformats(heap, w, self, args, kwargs) ==
    LET c == heap[w]
        fwd == Call(heap, c.new_func, self, args, kwargs)
    IN  [events |-> <<Enter(w), Generate(w),
                      deprecation(w, c.out_message, c.stacklevel, c.category),
                      CallEv(w, c.new_func, self, args, kwargs)>> \o fwd.events,
         outcome |-> fwd.outcome]

\* old_new_func reading the variables of the closure built last, as when
\* every closure shares one cell.
old_new_func_shared_cell(heap, w, self, args, kwargs) ==
    LET c == heap[Len(heap)]
    IN  IF c.type # "old_new_func" \/ c.new_func.kind # "plain" THEN
            [events |-> <<Enter(w)>>,
             outcome |-> Return(<<"None", 0, <<>>, {}>>)]
        ELSE
            [events |-> <<Enter(w),
                          deprecation(w, c.out_message, c.stacklevel, c.category),
                          CallEv(w, c.new_func, self, args, kwargs)>>,
             outcome |-> TargetOutcome(c.new_func.name, self, args, kwargs)]

\* moved_function.old_new_func(*args, **kwargs)
old_new_func(heap, w, self, args, kwargs) ==
    LET c == heap[w]
        fwd == Call(heap, c.new_func, self, args, kwargs)
    IN  [events |-> <<Enter(w),
                      deprecation(w, c.out_message, c.stacklevel, c.category),
                      CallEv(w, c.new_func, self, args, kwargs)>> \o fwd.events,
         outcome |-> fwd.outcome]

\* The decorator's wrapper calling the wrapped function before it warns.
moved_wrapper_forwards_first(heap, w, self, args, kwargs) ==
    LET c == heap[w]
        base_name == get_class_name_of_bound(self)
        old_name == IF c.fully_qualified THEN c.old_attribute_name
                    ELSE Join(S("."), <<base_name, c.old_attribute_name>>)
        new_name == Join(S("."), <<base_name, c.new_attribute_name>>)
        prefix == KIND_MOVED_PREFIX_TPL(c.kind, old_name, new_name)
        out_message == generate_message(prefix, c.message, c.version,
                                        c.removal_version)
        fwd == Call(heap, c.f, self, args, kwargs)
    IN  [events |-> <<Enter(w), Generate(w),
                      CallEv(w, c.f, self, args, kwargs)>> \o fwd.events
                    \o <<deprecation(w, out_message, c.stacklevel, c.category)>>,
         outcome |-> fwd.outcome]

\* _moved_decorator.decorator.wrapper(wrapped, instance, args, kwargs)
moved_wrapper(heap, w, self, args, kwargs) ==
    LET c == heap[w]
        base_name == get_class_name_of_bound(self)
        old_name == IF c.fully_qualified THEN c.old_attribute_name
                    ELSE Join(S("."), <<base_name, c.old_attribute_name>>)
        new_name == Join(S("."), <<base_name, c.new_attribute_name>>)
        prefix == KIND_MOVED_PREFIX_TPL(c.kind, old_name, new_name)
        out_message == generate_message(prefix, c.message, c.version,
                                        c.removal_version)
        fwd == Call(heap, c.f, self, args, kwargs)
    IN  [events |-> <<Enter(w), Generate(w),
                      deprecation(w, out_message, c.stacklevel, c.category),
                      CallEv(w, c.f, self, args, kwargs)>> \o fwd.events,
         outcome |-> fwd.outcome]

\* The constructor wrapper swallowing what the constructor raises.
class_init_wrapper_swallows(heap, w, self, args, kwargs) ==
    LET c == heap[w]
        fwd == Call(heap, c.f, self, args, kwargs)
    IN  [events |-> <<Enter(w),
                      deprecation(w, c.out_message, c.stacklevel, c.category),
                      CallEv(w, c.f, self, args, kwargs)>> \o fwd.events,
         outcome |-> IF fwd.outcome.tag = "raise"
                     THEN Return(<<"None", self, <<>>, {}>>)
                     ELSE fwd.outcome]

\* moved_class.decorator.wrapper(self, *args, **kwargs)
class_init_wrapper(heap, w, self, args, kwargs) ==
    LET c == heap[w]
        fwd == Call(heap, c.f, self, args, kwargs)
    IN  [events |-> <<Enter(w),
                      deprecation(w, c.out_message, c.stacklevel, c.category),
                      CallEv(w, c.f, self, args, kwargs)>> \o fwd.events,
         outcome |-> fwd.outcome]

\* Calling a function object: the user's own function, or one of the closures.
Call(heap, ref, self, args, kwargs) ==
    IF ref.kind = "plain" THEN
        [events |-> <<>>, outcome |-> TargetOutcome(ref.name, self, args, kwargs)]
    ELSE CASE heap[ref.idx].type = "old_new_func" ->
                old_new_func(heap, ref.idx, self, args, kwargs)
           [] heap[ref.idx].type = "moved_decorator" ->
                moved_wrapper(heap, ref.idx, self, args, kwargs)
           [] heap[ref.idx].type = "class_init" ->
                class_init_wrapper(heap, ref.idx, self, args, kwargs)

----------------------------------------------------------------------------
(* Attribute protocol of Host and its instances, and the descriptor *)

Instance(i) == [kind |-> "instance", id |-> i]
HostClass == [kind |-> "class", id |-> 0]

PlainAttr(v) == [kind |-> "value", v |-> v]
DescriptorAttr(w) == [kind |-> "descriptor", v |-> w]

\* The attribute of Host that the descriptor in slot w is bound to.
AttrOf(w) == <<"old", w>>

RECURSIVE getattr(_, _, _, _, _)

\* __get__ looking the new name up on the owner class even for an instance.
rop_get_always_owner(heap, hd, ids, w, instance) ==
    LET d == heap[w]
        r == getattr(heap, hd, ids, HostClass, d.new_name)
    IN  [events |-> <<Enter(w),
                      deprecation(w, d.message, d.stacklevel, d.category),
                      LookupEv(w, HostClass, d.new_name)>> \o r.events,
         outcome |-> r.outcome]

\* moved_read_only_property.__get__(self, instance, owner); instance 0 is None.
rop_get(heap, hd, ids, w, instance) ==
    LET d == heap[w]
        real_owner == IF instance # 0 THEN Instance(instance) ELSE HostClass
        r == getattr(heap, hd, ids, real_owner, d.new_name)
    IN  [events |-> <<Enter(w),
                      deprecation(w, d.message, d.stacklevel, d.category),
                      LookupEv(w, real_owner, d.new_name)>> \o r.events,
         outcome |-> r.outcome]

\* The methods class moved_read_only_property defines: __init__ and __get__.
defines_get(d) == d.type = "moved_read_only_property"
defines_set(d) == FALSE

AttrResult(attr) == [events |-> <<>>, outcome |-> Return(<<"value", attr.v, <<>>, {}>>)]
AttrMissing(name) ==
    [events |-> <<>>, outcome |-> Raise(<<"AttributeError", 0, name, {}>>)]

\* getattr(obj, name) for obj an instance of Host, or Host itself.
getattr(heap, hd, ids, obj, name) ==
    LET in_type == name \in DOMAIN hd
        is_descr == in_type /\ hd[name].kind = "descriptor"
    IN  IF obj.kind = "instance" THEN
            IF is_descr /\ defines_get(heap[hd[name].v]) /\ defines_set(heap[hd[name].v])
            THEN rop_get(heap, hd, ids, hd[name].v, obj.id)
            ELSE IF name \in DOMAIN ids[obj.id] THEN AttrResult(ids[obj.id][name])
            ELSE IF is_descr /\ defines_get(heap[hd[name].v])
            THEN rop_get(heap, hd, ids, hd[name].v, obj.id)
            ELSE IF in_type THEN AttrResult(hd[name])
            ELSE AttrMissing(name)
        ELSE
            IF is_descr /\ defines_get(heap[hd[name].v])
            THEN rop_get(heap, hd, ids, hd[name].v, 0)
            ELSE IF in_type THEN AttrResult(hd[name])
            ELSE AttrMissing(name)

\* setattr(instance, name, v): a descriptor that defines no __set__ does not
\* take part; the value lands in the instance's __dict__.
setattr(heap, hd, ids, i, name, v) ==
    IF /\ name \in DOMAIN hd
       /\ hd[name].kind = "descriptor"
       /\ defines_set(heap[hd[name].v])
    THEN [ids |-> ids, outcome |-> Raise(<<"AttributeError", i, name, {}>>)]
    ELSE [ids |-> [ids EXCEPT ![i] = (name :> PlainAttr(v)) @@ @],
          outcome |-> Return(<<"None", i, name, {}>>)]

----------------------------------------------------------------------------
(* Classes *)

RECURSIVE LookupInit(_, _)
\* cls.__init__ looked up along the bases.
LookupInit(cls, c) ==
    IF cls[c].init.kind # "none" THEN cls[c].init
    ELSE IF cls[c].base = 0 THEN PlainRef("object.__init__")
    ELSE LookupInit(cls, cls[c].base)

isclass(value) == value.type = "class"

----------------------------------------------------------------------------
(* The constructors *)

\* moved_function(new_func, old_func_name, old_module_name, ...): the closure
\* old_new_func, and the number of generate_message calls made building it.
moved_function(heap, new_func, old_func_name, old_module_name, o) ==
    LET new_func_full_name == get_callable_name(heap, new_func) \o MOVED_CALLABLE_POSTFIX
        old_func_full_name == Join(S("."), <<old_module_name, old_func_name>>)
                                \o MOVED_CALLABLE_POSTFIX
        prefix == FUNC_MOVED_PREFIX_TPL(old_func_full_name, new_func_full_name)
        out_message == generate_message(prefix, o.message, o.version,
                                        o.removal_version)
    IN  [closure |-> [type |-> "old_new_func", new_func |-> new_func,
                      out_message |-> out_message, stacklevel |-> o.stacklevel,
                      category |-> o.category,
                      name |-> old_func_name, module |-> old_module_name],
         generate_calls |-> 1]

\* _moved_decorator(kind, new_attribute_name, ...)(f): the wrapt wrapper
\* around f; no message is built at decoration time.
moved_decorator(kind, new_attribute_name, o, attr_postfix, f, has_qualname) ==
    LET q == get_qualified_name(S(f), has_qualname)
        old_attribute_name == IF attr_postfix # <<>> THEN q[2] \o attr_postfix
                              ELSE q[2]
    IN  [closure |-> [type |-> "moved_decorator", kind |-> kind,
                      new_attribute_name |-> new_attribute_name,
                      message |-> o.message, version |-> o.version,
                      removal_version |-> o.removal_version,
                      stacklevel |-> o.stacklevel, category |-> o.category,
                      fully_qualified |-> q[1],
                      old_attribute_name |-> old_attribute_name,
                      f |-> PlainRef(f)],
         generate_calls |-> 0]

\* The postfix appended without looking at the name.
moved_method_name_always_appends(new_method_name) ==
    new_method_name \o MOVED_CALLABLE_POSTFIX

\* The new method name moved_method hands to _moved_decorator.
moved_method_name(new_method_name) ==
    IF ~endswith(new_method_name, MOVED_CALLABLE_POSTFIX)
    THEN new_method_name \o MOVED_CALLABLE_POSTFIX
    ELSE new_method_name

moved_method(new_method_name, o, f, has_qualname) ==
    moved_decorator("Method", moved_method_name(new_method_name), o,
                    MOVED_CALLABLE_POSTFIX, f, has_qualname)

moved_property(new_attribute_name, o, f, has_qualname) ==
    moved_decorator("Property", new_attribute_name, o, <<>>, f, has_qualname)

\* moved_read_only_property.__init__(old_name, new_name, ...)
moved_read_only_property(old_name, new_name, o) ==
    [closure |-> [type |-> "moved_read_only_property",
                  old_name |-> old_name, new_name |-> new_name,
                  message |-> generate_message(
                                  ROP_MOVED_PREFIX_TPL(old_name, new_name),
                                  <<>>, o.version, o.removal_version),
                  stacklevel |-> o.stacklevel, category |-> o.category],
     generate_calls |-> 1]

\* The wrapped constructor installed on new_class itself.
init_owner_new_class(new_class, old_class) == new_class

\* The type check answering with the value instead of raising.
unexpected_class_type_returns(heap, cls, value) ==
    [heap |-> heap, cls |-> cls, generate_calls |-> 0,
     outcome |-> Return(<<"value", value.id, <<>>, {}>>)]

\* moved_class on a value that is no class: TypeError, nothing built.
unexpected_class_type(heap, cls, value) ==
    [heap |-> heap, cls |-> cls, generate_calls |-> 0,
     outcome |-> Raise(<<"TypeError", 0, S("Unexpected class type"), {}>>)]

\* Where moved_class installs the wrapped constructor: on the new-old type.
init_owner(new_class, old_class) == old_class

\* moved_class(new_class, old_class_name, old_module_name, ...): the heaps
\* after the call and what it returned or raised.
moved_class(heap, cls, value, old_class_name, old_module_name, o) ==
    IF ~isclass(value) THEN unexpected_class_type(heap, cls, value)
    ELSE
        LET new_class == value.id
            old_name == Join(S("."), <<old_module_name, old_class_name>>)
            new_name == get_class_name(cls[new_class])
            prefix == CLASS_MOVED_PREFIX_TPL(old_name, new_name)
            out_message == generate_message(prefix, o.message, o.version,
                                            o.removal_version)
            old_class == Len(cls) + 1
            w == Len(heap) + 1
            cls1 == Append(cls, [name |-> old_class_name, module |-> S("debtcollector.moves"),
                                 base |-> new_class, init |-> NoRef])
            cls2 == [cls1 EXCEPT ![old_class].module = old_module_name]
            wrapper == [type |-> "class_init", f |-> LookupInit(cls2, old_class),
                        out_message |-> out_message,
                        stacklevel |-> o.stacklevel, category |-> o.category]
            cls3 == [cls2 EXCEPT ![init_owner(new_class, old_class)].init =
                                     ClosureRef(w)]
        IN  [heap |-> Append(heap, wrapper), cls |-> cls3, generate_calls |-> 1,
             outcome |-> Return(<<"class", old_class, <<>>, {}>>)]

----------------------------------------------------------------------------
(* Inputs *)

Funcs == {"new_func", "strict_func"}
MethodFuncs == {"old_method"}
OldNames == {S("old_name")}
OldModuleNames == {S("oldmod")}
NewAttrNames == {S("new"), S("absent")}
NewMethodNames == {<<"t">>}
NameChars == {"t", "(", ")"}
AllNames == UNION {[1..n -> NameChars] : n \in 0..MaxNameLen}

Options ==
    {[message |-> <<>>, version |-> <<>>, removal_version |-> <<>>,
      stacklevel |-> 3, category |-> "None"],
     [message |-> S("use the new one"), version |-> S("1.0"),
      removal_version |-> S("?"),
      stacklevel |-> 2, category |-> "PendingDeprecationWarning"]}

\* (args, kwargs) of a call.
CallInputs == {<<<<>>, {}>>, <<<<1>>, {<<"k", 1>>}>>}
NumInstances == Len(instDicts)

Op(op, target, self, value, name, args, kwargs, events, outcome) ==
    [op |-> op, target |-> target, self |-> self, value |-> value,
     name |-> name, args |-> args, kwargs |-> kwargs,
     events |-> events, outcome |-> outcome]

Tally(cnt, events, types) ==
    [w \in DOMAIN cnt |->
        cnt[w] + Cardinality({i \in 1..Len(events) :
                                 events[i].type \in types /\ events[i].w = w})]

----------------------------------------------------------------------------
(* State machine *)

Init ==
    /\ wrappers = <<>>
    /\ classes = <<[name |-> S("NewC"), module |-> S("newmod"), base |-> 0,
                    init |-> PlainRef("NewC.__init__")]>>
    /\ hostDict = (S("new") :> PlainAttr(10))
    /\ instDicts = <<(S("new") :> PlainAttr(11))>>
    /\ invoked = <<>>
    /\ warned = <<>>
    /\ forwarded = <<>>
    /\ generated = <<>>
    /\ ops = 0
    /\ last = Op("none", 0, 0, IntValue(0), <<>>, <<>>, {}, <<>>,
                 Return(<<"None", 0, <<>>, {}>>))

\* A constructor returned closure c, having called generate_message n times.
Constructed(c, n) ==
    /\ wrappers' = Append(wrappers, c)
    /\ invoked' = Append(invoked, 0)
    /\ warned' = Append(warned, 0)
    /\ forwarded' = Append(forwarded, 0)
    /\ generated' = Append(generated, n)
    /\ ops' = ops + 1
    /\ UNCHANGED instDicts

\* A top-level operation ran the wrapper bodies recorded in events.
Ran(events) ==
    /\ invoked' = Tally(invoked, events, {"enter"})
    /\ warned' = Tally(warned, events, {"warn"})
    /\ forwarded' = Tally(forwarded, events, {"call", "getattr"})
    /\ generated' = Tally(generated, events, {"generate"})
    /\ ops' = ops + 1
    /\ UNCHANGED <<wrappers, classes, hostDict>>

MovedFunction(new_func, old_func_name, old_module_name, o) ==
    /\ ops < MaxOps
    /\ Len(wrappers) < MaxWrappers
    /\ LET r == moved_function(wrappers, new_func, old_func_name,
                               old_module_name, o)
       IN  /\ Constructed(r.closure, r.generate_calls)
           /\ last' = Op("moved_function", Len(wrappers) + 1, 0, IntValue(0),
                         old_func_name, <<>>, {}, <<>>,
                         Return(<<"function", Len(wrappers) + 1, <<>>, {}>>))
    /\ UNCHANGED <<classes, hostDict>>

MovedMethod(names, o, f, has_qualname) ==
    /\ ops < MaxOps
    /\ Len(wrappers) < MaxWrappers
    /\ \E new_method_name \in names :
         LET r == moved_method(new_method_name, o, f, has_qualname)
         IN  /\ Constructed(r.closure, r.generate_calls)
             /\ last' = Op("moved_method", Len(wrappers) + 1, 0, IntValue(0),
                           new_method_name, <<>>, {}, <<>>,
                           Return(<<"function", Len(wrappers) + 1, <<>>, {}>>))
    /\ UNCHANGED <<classes, hostDict>>

MovedProperty(names, o, f, has_qualname) ==
    /\ ops < MaxOps
    /\ Len(wrappers) < MaxWrappers
    /\ \E new_attribute_name \in names :
         LET r == moved_property(new_attribute_name, o, f, has_qualname)
         IN  /\ Constructed(r.closure, r.generate_calls)
             /\ last' = Op("moved_property", Len(wrappers) + 1, 0, IntValue(0),
                           new_attribute_name, <<>>, {}, <<>>,
                           Return(<<"function", Len(wrappers) + 1, <<>>, {}>>))
    /\ UNCHANGED <<classes, hostDict>>

\* class Host: <AttrOf(w)> = moved_read_only_property(old_name, new_name, ...)
MovedReadOnlyProperty(old_name, new_name, o) ==
    /\ ops < MaxOps
    /\ Len(wrappers) < MaxWrappers
    /\ LET r == moved_read_only_property(old_name, new_name, o)
           w == Len(wrappers) + 1
       IN  /\ Constructed(r.closure, r.generate_calls)
           /\ hostDict' = (AttrOf(w) :> DescriptorAttr(w)) @@ hostDict
           /\ last' = Op("moved_read_only_property", w, 0, IntValue(0),
                         AttrOf(w), <<>>, {}, <<>>,
                         Return(<<"descriptor", w, <<>>, {}>>))
    /\ UNCHANGED classes

MovedClass(value, old_class_name, old_module_name, o) ==
    /\ ops < MaxOps
    /\ Len(wrappers) < MaxWrappers
    /\ LET r == moved_class(wrappers, classes, value, old_class_name,
                            old_module_name, o)
       IN  /\ wrappers' = r.heap
           /\ classes' = r.cls
           /\ LET grow(cnt, n) == IF Len(r.heap) > Len(wrappers)
                                  THEN Append(cnt, n) ELSE cnt
              IN  /\ invoked' = grow(invoked, 0)
                  /\ warned' = grow(warned, 0)
                  /\ forwarded' = grow(forwarded, 0)
                  /\ generated' = grow(generated, r.generate_calls)
           /\ last' = Op("moved_class", 0, 0, value, old_class_name, <<>>, {},
                         <<>>, r.outcome)
    /\ ops' = ops + 1
    /\ UNCHANGED <<hostDict, instDicts>>

\* old_name(*args, **kwargs) for the function moved_function returned.
CallFunction(w, args, kwargs) ==
    /\ ops < MaxOps
    /\ wrappers[w].type = "old_new_func"
    /\ LET r == Call(wrappers, ClosureRef(w), 0, args, kwargs)
       IN  /\ Ran(r.events)
           /\ last' = Op("call", w, 0, IntValue(0), <<>>, args, kwargs,
                         r.events, r.outcome)
    /\ UNCHANGED instDicts

\* instance.old_method(*args, **kwargs), or the old property's getter.
CallMethod(w, i, args, kwargs) ==
    /\ ops < MaxOps
    /\ wrappers[w].type = "moved_decorator"
    /\ LET r == Call(wrappers, ClosureRef(w), i, args, kwargs)
       IN  /\ Ran(r.events)
           /\ last' = Op("call", w, i, IntValue(0), <<>>, args, kwargs,
                         r.events, r.outcome)
    /\ UNCHANGED instDicts

\* cls(*args, **kwargs) for any class, moved or not.
Instantiate(c, args, kwargs) ==
    /\ ops < MaxOps
    /\ LET r == Call(wrappers, LookupInit(classes, c), c, args, kwargs)
       IN  /\ Ran(r.events)
           /\ last' = Op("instantiate", c, c, ClassValue(c), <<>>, args, kwargs,
                         r.events,
                         IF r.outcome.tag = "raise" THEN r.outcome
                         ELSE Return(<<"instance", c, args, kwargs>>))
    /\ UNCHANGED instDicts

\* instance.name (i > 0) or Host.name (i = 0).
GetAttr(i, name) ==
    /\ ops < MaxOps
    /\ LET obj == IF i = 0 THEN HostClass ELSE Instance(i)
           r == getattr(wrappers, hostDict, instDicts, obj, name)
       IN  /\ Ran(r.events)
           /\ last' = Op("getattr", 0, i, IntValue(0), name, <<>>, {},
                         r.events, r.outcome)
    /\ UNCHANGED instDicts

\* instance.name = v
SetAttr(i, name, v) ==
    /\ ops < MaxOps
    /\ LET r == setattr(wrappers, hostDict, instDicts, i, name, v)
       IN  /\ instDicts' = r.ids
           /\ Ran(<<>>)
           /\ last' = Op("setattr", 0, i, IntValue(v), name, <<>>, {},
                         <<>>, r.outcome)

FuncRefs ==
    {PlainRef(f) : f \in Funcs}
    \cup {ClosureRef(w) : w \in {x \in DOMAIN wrappers :
                                    wrappers[x].type = "old_new_func"}}

ClassInputs == {ClassValue(c) : c \in DOMAIN classes} \cup {IntValue(5)}

Construct(names) ==
    \/ \E nf \in FuncRefs, n \in OldNames, m \in OldModuleNames, o \in Options :
          MovedFunction(nf, n, m, o)
    \/ \E o \in Options, f \in MethodFuncs, q \in BOOLEAN :
          MovedMethod(names, o, f, q)
    \/ \E o \in Options, f \in MethodFuncs, q \in BOOLEAN :
          MovedProperty(names, o, f, q)
    \/ \E n \in OldNames, nn \in NewAttrNames, o \in Options :
          MovedReadOnlyProperty(n, nn, o)
    \/ \E v \in ClassInputs, n \in OldNames, m \in OldModuleNames, o \in Options :
          MovedClass(v, n, m, o)

Use ==
    \/ \E w \in DOMAIN wrappers, in \in CallInputs :
          CallFunction(w, in[1], in[2])
    \/ \E w \in DOMAIN wrappers, i \in 1..NumInstances, in \in CallInputs :
          CallMethod(w, i, in[1], in[2])
    \/ \E c \in DOMAIN classes, in \in CallInputs :
          Instantiate(c, in[1], in[2])
    \/ \E i \in 0..NumInstances, n \in DOMAIN hostDict : GetAttr(i, n)
    \/ \E i \in 1..NumInstances, w \in DOMAIN wrappers :
          AttrOf(w) \in DOMAIN hostDict /\ SetAttr(i, AttrOf(w), 7)

Next == Construct(NewMethodNames) \/ Use

Spec == Init /\ [][Next]_vars

\* The specification for the name normalisation: one method or property is
\* decorated, its new name drawn from every string up to MaxNameLen, and used.
NextNames ==
    \/ \E o \in Options, f \in MethodFuncs, q \in BOOLEAN :
          wrappers = <<>> /\ MovedMethod(AllNames, o, f, q)
    \/ \E o \in Options, f \in MethodFuncs, q \in BOOLEAN :
          wrappers = <<>> /\ MovedProperty(AllNames, o, f, q)
    \/ \E w \in DOMAIN wrappers, i \in 1..NumInstances, in \in CallInputs :
          CallMethod(w, i, in[1], in[2])

SpecNames == Init /\ [][NextNames]_vars

----------------------------------------------------------------------------
(* Properties *)

\* The events of wrapper w in a trace, in order.
Steps(events, w) ==
    SelectSeq(events, LAMBDA e : e.w = w /\ e.type \in {"enter", "warn", "call", "getattr"})
Entered(events) == {events[i].w : i \in {j \in 1..Len(events) : events[j].type = "enter"}}

\* What wrapper w forwards to.
TargetOf(w) ==
    IF wrappers[w].type = "old_new_func" THEN wrappers[w].new_func
    ELSE wrappers[w].f

\* One run of wrapper w inside a trace: entered, one warning, one forward.
OneWarnThenOneForward(events, w) ==
    LET st == Steps(events, w)
    IN  /\ Len(st) = 3
        /\ st[1].type = "enter"
        /\ st[2].type = "warn"
        /\ st[3].type \in {"call", "getattr"}
        /\ IF wrappers[w].type = "moved_read_only_property"
           THEN st[3].type = "getattr" /\ st[3].name = wrappers[w].new_name
           ELSE st[3].type = "call" /\ st[3].target = TargetOf(w)

\* C1: every invocation of a wrapper (function, method, property, class
\* constructor, read-only property access) emits exactly one warning and
\* forwards exactly once, the warning first; so after n invocations of a
\* wrapper it has emitted n warnings and forwarded n times.
C1_OneWarningOneForward ==
    /\ \A w \in DOMAIN wrappers :
          /\ warned[w] = invoked[w]
          /\ forwarded[w] = invoked[w]
    /\ \A w \in Entered(last.events) : OneWarnThenOneForward(last.events, w)
    /\ last.op = "call" => last.target \in Entered(last.events)

C1_Witness ==
    \E w \in DOMAIN wrappers : invoked[w] = 2 /\ warned[w] = 2 /\ forwarded[w] = 2

\* C2: calling the function moved_function returned gives exactly what
\* calling new_func with the same positional and keyword arguments gives,
\* and new_func receives those arguments unchanged.
C2_RoundTrip ==
    (last.op = "call" /\ wrappers[last.target].type = "old_new_func") =>
        LET f == wrappers[last.target].new_func
            st == Steps(last.events, last.target)
        IN  /\ last.outcome = Call(wrappers, f, 0, last.args, last.kwargs).outcome
            /\ f.kind = "plain" =>
                 last.outcome = TargetOutcome(f.name, 0, last.args, last.kwargs)
            /\ Len(st) = 3
            /\ st[3] = CallEv(last.target, f, 0, last.args, last.kwargs)

C2_Witness ==
    /\ last.op = "call"
    /\ wrappers[last.target].type = "old_new_func"
    /\ last.outcome = Return(<<"new_func", 0, <<1>>, {<<"k", 1>>}>>)

\* C3: moved_class given a value that is not a class raises TypeError and
\* constructs nothing: no class, no wrapper, no warning, nothing returned.
C3_NotAClassRaises ==
    [][(last'.op = "moved_class" /\ ~isclass(last'.value) /\ ops' = ops + 1) =>
          /\ last'.outcome.tag = "raise"
          /\ last'.outcome.val[1] = "TypeError"
          /\ last'.outcome.val[3] = S("Unexpected class type")
          /\ last'.events = <<>>
          /\ UNCHANGED <<wrappers, classes, hostDict, instDicts, invoked,
                         warned, forwarded, generated>>]_vars

C3_Witness ==
    /\ last.op = "moved_class"
    /\ ~isclass(last.value)
    /\ last.outcome.tag = "raise"
    /\ Len(wrappers) = 1

\* C4: whenever the descriptor's __get__ runs for an access, the access
\* yields getattr(instance, new_name) when made on an instance and
\* getattr(Host, new_name) when made on the class, with exactly one warning,
\* emitted before the lookup.
C4_ReadOnlyPropertyGet ==
    (last.op = "getattr" /\ last.events # <<>>) =>
        LET w == last.events[1].w
            real_owner == IF last.self # 0 THEN Instance(last.self) ELSE HostClass
        IN  /\ wrappers[w].type = "moved_read_only_property"
            /\ hostDict[last.name] = DescriptorAttr(w)
            /\ last.outcome = getattr(wrappers, hostDict, instDicts, real_owner,
                                      wrappers[w].new_name).outcome
            /\ Count(last.events, "warn", w) = 1
            /\ last.events[2].type = "warn"
            /\ last.events[3] = LookupEv(w, real_owner, wrappers[w].new_name)

C4_Witness ==
    /\ last.op = "getattr"
    /\ last.self # 0
    /\ Len(last.events) = 3
    /\ last.outcome = Return(<<"value", 11, <<>>, {}>>)

IsMovedAttr(name) ==
    name \in DOMAIN hostDict /\ hostDict[name].kind = "descriptor"

\* C5: assigning to the old attribute name on an instance fails with an
\* attribute error and leaves the instance unchanged, and every read of the
\* old name goes through the descriptor (it warns).
C5_ReadOnly ==
    /\ (last.op = "setattr" /\ IsMovedAttr(last.name)) =>
          /\ last.outcome.tag = "raise"
          /\ last.outcome.val[1] = "AttributeError"
    /\ \A i \in DOMAIN instDicts : \A n \in DOMAIN instDicts[i] : ~IsMovedAttr(n)
    /\ (last.op = "getattr" /\ IsMovedAttr(last.name)) =>
          Count(last.events, "warn", hostDict[last.name].v) = 1

IsCached(w) ==
    wrappers[w].type \in {"old_new_func", "class_init", "moved_read_only_property"}
CachedMessage(w) ==
    IF wrappers[w].type = "moved_read_only_property" THEN wrappers[w].message
    ELSE wrappers[w].out_message

\* C6 as stated: every wrapper of the five constructors has had its message
\* formatted exactly once, however often it was invoked.
C6_FormattedOnceForAll ==
    \A w \in DOMAIN wrappers : generated[w] = 1

\* C6 amended: the wrappers of moved_function, moved_class and
\* moved_read_only_property format their message once, at construction, and
\* every invocation emits that cached message; the wrappers of moved_method
\* and moved_property format no message at decoration and one per invocation.
C6_FormattedOnceWhenCached ==
    /\ \A w \in DOMAIN wrappers :
          IF IsCached(w) THEN generated[w] = 1 ELSE generated[w] = invoked[w]
    /\ \A i \in 1..Len(last.events) :
          (last.events[i].type = "warn" /\ IsCached(last.events[i].w)) =>
              last.events[i].message = CachedMessage(last.events[i].w)
    /\ \A w \in Entered(last.events) :
          Count(last.events, "generate", w) = IF IsCached(w) THEN 0 ELSE 1

C6_Witness ==
    \E w \in DOMAIN wrappers :
        IsCached(w) /\ invoked[w] = 2 /\ generated[w] = 1 /\ warned[w] = 2

\* The user's function a trace bottoms out in, and what it did.
InnermostCall(events) == events[Len(events)]
InnermostOutcome(events) ==
    LET ce == InnermostCall(events)
    IN  TargetOutcome(ce.target.name, ce.self, ce.args, ce.kwargs)

\* C7: when the target raises during the forwarded call, the wrapper of
\* moved_function, moved_method, moved_property or moved_class lets that very
\* exception reach the caller, after exactly one warning, and calls the
\* target exactly once.
C7_ErrorsPropagate ==
    (/\ last.op \in {"call", "instantiate"}
     /\ last.events # <<>>
     /\ InnermostCall(last.events).type = "call"
     /\ InnermostCall(last.events).target.kind = "plain"
     /\ InnermostOutcome(last.events).tag = "raise") =>
        /\ last.outcome = InnermostOutcome(last.events)
        /\ \A w \in Entered(last.events) :
              /\ Count(last.events, "warn", w) = 1
              /\ Count(last.events, "call", w) = 1
              /\ Steps(last.events, w)[2].type = "warn"
        /\ InnermostCall(last.events).args = last.args
        /\ InnermostCall(last.events).kwargs = last.kwargs

C7_Witness ==
    /\ last.op = "instantiate"
    /\ last.events # <<>>
    /\ last.outcome.tag = "raise"
    /\ last.outcome.val[1] = "TypeError"

RECURSIVE ChainOf(_)
\* The wrappers a call of ref runs: ref itself and whatever its target wraps.
ChainOf(ref) ==
    IF ref.kind # "closure" THEN {}
    ELSE {ref.idx} \cup ChainOf(TargetOf(ref.idx))

SameConstruction(w1, w2) ==
    /\ w1 # w2
    /\ wrappers[w1].type = wrappers[w2].type
    /\ wrappers[w1] = wrappers[w2]

\* Wrapper w warned with its own stacklevel, category and (when it caches
\* one) message, and forwarded to its own target.
OwnSettings(events, w) ==
    LET st == Steps(events, w)
    IN  /\ st[2].stacklevel = wrappers[w].stacklevel
        /\ st[2].category = deprecation(w, <<>>, 0, wrappers[w].category).category
        /\ IsCached(w) => st[2].message = CachedMessage(w)
        /\ st[3].target = TargetOf(w)

\* C8: wrappers share no state.  No operation changes a wrapper that already
\* exists (message, stacklevel, category, target); a call of one wrapper
\* leaves the counts of every wrapper outside its own forwarding chain
\* untouched; and each call runs exactly the wrappers of its chain, each
\* emitting one warning with its own settings and forwarding once to its own
\* target, also when two wrappers were built by the same constructor from
\* the same parameters.
C8_Independent ==
    /\ [][/\ \A w \in DOMAIN wrappers : wrappers'[w] = wrappers[w]
          /\ (last'.op = "call" /\ ops' = ops + 1) =>
                \A w \in DOMAIN wrappers \ ChainOf(ClosureRef(last'.target)) :
                    /\ invoked'[w] = invoked[w]
                    /\ warned'[w] = warned[w]
                    /\ forwarded'[w] = forwarded[w]
                    /\ generated'[w] = generated[w]]_vars
    /\ [](last.op = "call" =>
            /\ Entered(last.events) = ChainOf(ClosureRef(last.target))
            /\ \A w \in Entered(last.events) :
                  /\ Count(last.events, "enter", w) = 1
                  /\ Count(last.events, "warn", w) = 1
                  /\ Count(last.events, "call", w) = 1
                  /\ OwnSettings(last.events, w))

C8_Witness ==
    \E w1 \in DOMAIN wrappers, w2 \in DOMAIN wrappers :
        /\ SameConstruction(w1, w2)
        /\ invoked[w1] = 1 /\ warned[w1] = 1
        /\ invoked[w2] = 1 /\ warned[w2] = 1
        /\ last.op = "call"

RECURSIVE TrailingPostfixes(_)
\* How many "()" the string ends in.
TrailingPostfixes(s) ==
    IF endswith(s, MOVED_CALLABLE_POSTFIX)
    THEN 1 + TrailingPostfixes(SubSeq(s, 1, Len(s) - Len(MOVED_CALLABLE_POSTFIX)))
    ELSE 0

Contains(s, sub) ==
    \E i \in 0..(Len(s) - Len(sub)) : SubSeq(s, i + 1, i + Len(sub)) = sub

MovedTo(new_name) ==
    <<"' has moved to '", "Host", ".">> \o new_name \o S("'")

C10_NewClassUntouched ==
    /\ [][\A c \in DOMAIN classes : classes'[c] = classes[c]]_vars
    /\ []((last.op = "moved_class" /\ last.outcome.tag = "return") =>
            LET old_class == last.outcome.val[2]
            IN  /\ old_class = Len(classes)
                /\ classes[old_class].name = last.name
                /\ classes[old_class].module \in OldModuleNames
                /\ classes[old_class].base = last.value.id
                /\ classes[old_class].init = ClosureRef(Len(wrappers)))
    /\ [](last.op = "instantiate" =>
            LET c == last.target
            IN  IF classes[c].base = 0 THEN last.events = <<>>
                ELSE /\ classes[c].init.kind = "closure"
                     /\ Len(last.events) >= 3
                     /\ last.events[1] = Enter(classes[c].init.idx)
                     /\ last.events[2] =
                           deprecation(classes[c].init.idx,
                                       wrappers[classes[c].init.idx].out_message,
                                       wrappers[classes[c].init.idx].stacklevel,
                                       wrappers[classes[c].init.idx].category)
                     /\ last.events[3] =
                           CallEv(classes[c].init.idx,
                                  LookupInit(classes, classes[c].base),
                                  c, last.args, last.kwargs))

C10_Witness ==
    /\ last.op = "instantiate"
    /\ classes[last.target].base = 1
    /\ Len(last.events) = 3
    /\ last.outcome.tag = "return"

====
